---- MODULE Spec2Model ----
(***************************************************************************)
(* Model of ftp_backup.py: the path resolver (_extract_relative_path,      *)
(* extract_site_name, site key sanitisation), the backup store             *)
(* (FtpBackupManager.backup_file with its manifest) and the archive        *)
(* builder (FtpBackupCreateZipCommand.create_zip_archive).                 *)
(*                                                                         *)
(* Strings are sequences of atoms.  An atom is either a word (a run of     *)
(* characters that the program's patterns treat alike, such as "www" or    *)
(* "acme") or one special character ("/", "\\", ":", ".", " ").  Every     *)
(* string operation of the program is modelled on the atoms: a substring   *)
(* test is a sub-sequence test, a replacement replaces atoms.              *)
(***************************************************************************)
EXTENDS Integers, Sequences, FiniteSets, TLC

VARIABLES
    os_name,          \* "nt" or "posix": which os.path the interpreter binds
    pc,               \* position of the pure-function specifications
    file_path,        \* the path handed to the resolver / to backup_file
    relative_path,    \* result of _extract_relative_path
    site_name,        \* result of extract_site_name
    server_key,       \* sanitised site name (the site folder's name)
    now,              \* the wall clock, in seconds
    backup_root,      \* FtpBackupManager.backup_root
    files,            \* the file system: file (canonical path) -> content
    dirs,             \* the file system: the directories (canonical paths)
    server_backup_map,\* the manager's in-memory manifest
    result,           \* what the last backup_file call returned
    call,             \* history: the last backup_file call and what it met
    hist,             \* history: per relative path, the default-mode calls
    CURRENT_TASK_NUMBER, \* the module's global: the task number in use
    zip,              \* history: the last create_zip_archive call
    panel,            \* the window's input panel and the callback it holds
    cmd               \* history: the last editor command that ran its handler

pathVars == <<os_name, pc, file_path, relative_path, site_name, server_key>>

storeVars == <<now, backup_root, files, dirs, server_backup_map, result, call, hist>>

zipVars == <<CURRENT_TASK_NUMBER, zip>>

editVars == <<panel, cmd>>

vars == <<os_name, pc, file_path, relative_path, site_name, server_key,
          now, backup_root, files, dirs, server_backup_map, result, call, hist,
          CURRENT_TASK_NUMBER, zip, panel, cmd>>

----------------------------------------------------------------------------
(* Bounds of the model. *)

\* longest path string (in atoms) handed to the resolver specification
MaxPathLen == 5

\* backup_file is called at most this many times in a behaviour
MaxCalls == 2

\* create_zip_archive is called at most this many times in a behaviour
MaxZips == 1

\* the editor command handlers run at most this many times in a behaviour
MaxCmds == 2

----------------------------------------------------------------------------
(* Strings *)

BS == "\\"
FS == "/"
None == <<"None">>
EmptyStr == << >>

Min(S) == CHOOSE x \in S : \A y \in S : x <= y
Max(S) == CHOOSE x \in S : \A y \in S : x >= y

\* str.replace(a, b) for one-atom a, b
Replace(s, a, b) == [i \in 1..Len(s) |-> IF s[i] = a THEN b ELSE s[i]]

\* s[i:] starts with m
MatchAt(s, i, m) ==
    /\ i >= 1
    /\ i + Len(m) - 1 <= Len(s)
    /\ \A k \in 1..Len(m) : s[i + k - 1] = m[k]

\* m in s
Occurs(s, m) == \E i \in 1..Len(s) : MatchAt(s, i, m)

\* s.find(m) (1-based), for m that occurs in s
FirstIndex(s, m) == Min({i \in 1..Len(s) : MatchAt(s, i, m)})

\* s.split(m, 1)[1]
AfterFirst(s, m) == SubSeq(s, FirstIndex(s, m) + Len(m), Len(s))

\* s[i:] (1-based)
From(s, i) == SubSeq(s, i, Len(s))

StartsWith(s, m) == MatchAt(s, 1, m)

EndsWith(s, m) == Len(m) <= Len(s) /\ MatchAt(s, Len(s) - Len(m) + 1, m)

\* the indexes of the atom a in s
IndexesOf(s, a) == {i \in 1..Len(s) : s[i] = a}

RECURSIVE SplitOn(_, _)
\* s.split(a) for a one-atom separator a: the list of the parts
SplitOn(s, a) ==
    IF IndexesOf(s, a) = {} THEN <<s>>
    ELSE LET i == Min(IndexesOf(s, a))
         IN  <<SubSeq(s, 1, i - 1)>> \o SplitOn(From(s, i + 1), a)

----------------------------------------------------------------------------
(* os.path, for the two platforms *)

\* atoms that are one character long (ntpath.splitdrive looks at p[1:2])
OneCharAtoms == {"/", "\\", ":", ".", " ", "C", "x", "_"}

Sep(os) == IF os = "nt" THEN BS ELSE FS

IsSep(os, a) == a = FS \/ (os = "nt" /\ a = BS)

\* ntpath.splitdrive: the length of the drive prefix ("C:"), 0 on posix
DriveLen(os, p) ==
    IF os = "nt" /\ Len(p) >= 2 /\ p[2] = ":" /\ p[1] \in OneCharAtoms /\ ~IsSep(os, p[1])
    THEN 2 ELSE 0

\* index of the last separator after the drive, 0 if none
LastSep(os, p) ==
    LET S == {i \in (DriveLen(os, p) + 1)..Len(p) : IsSep(os, p[i])}
    IN  IF S = {} THEN 0 ELSE Max(S)

\* os.path.basename
basename(os, p) ==
    IF LastSep(os, p) = 0 THEN From(p, DriveLen(os, p) + 1)
    ELSE From(p, LastSep(os, p) + 1)

\* str.lower() on the atoms the model uses
LowerAtom(a) == IF a = "WWW" THEN "www" ELSE a

Lower(part) == [i \in 1..Len(part) |-> LowerAtom(part[i])]

Last(s) == s[Len(s)]

\* s.rstrip of separators
RECURSIVE RStripSeps(_, _)
RStripSeps(os, s) ==
    IF s # EmptyStr /\ IsSep(os, Last(s)) THEN RStripSeps(os, SubSeq(s, 1, Len(s) - 1))
    ELSE s

\* os.path.dirname
dirname(os, p) ==
    LET d == DriveLen(os, p)
        head == SubSeq(p, d + 1, LastSep(os, p))
        stripped == RStripSeps(os, head)
    IN  SubSeq(p, 1, d) \o (IF stripped = EmptyStr THEN head ELSE stripped)

\* os.path.join(a, b) (UNC shares apart)
Join(os, a, b) ==
    IF os = "posix"
    THEN IF b # EmptyStr /\ b[1] = FS THEN b
         ELSE IF a = EmptyStr \/ Last(a) = FS THEN a \o b
         ELSE a \o <<FS>> \o b
    ELSE LET da == DriveLen(os, a)
             db == DriveLen(os, b)
             drvA == SubSeq(a, 1, da)
             drvB == SubSeq(b, 1, db)
             pathA == From(a, da + 1)
             pathB == From(b, db + 1)
         IN  IF pathB # EmptyStr /\ IsSep(os, pathB[1])
             THEN (IF db > 0 \/ da = 0 THEN drvB ELSE drvA) \o pathB
             ELSE IF db > 0 /\ Lower(drvB) # Lower(drvA)
             THEN b
             ELSE (IF db > 0 THEN drvB ELSE drvA)
                  \o (IF pathA # EmptyStr /\ ~IsSep(os, Last(pathA))
                      THEN pathA \o <<BS>> ELSE pathA)
                  \o pathB

\* the parts of p between separators (of the platform), empty parts included
RECURSIVE SplitSeps(_, _)
SplitSeps(os, s) ==
    LET S == {i \in 1..Len(s) : IsSep(os, s[i])}
    IN  IF S = {} THEN <<s>>
        ELSE <<SubSeq(s, 1, Min(S) - 1)>> \o SplitSeps(os, From(s, Min(S) + 1))

\* "." and empty parts dropped, ".." resolved against the parts before it
RECURSIVE ResolveDots(_, _)
ResolveDots(acc, parts) ==
    IF parts = << >> THEN acc
    ELSE LET h == Head(parts)
         IN  IF h = EmptyStr \/ h = <<".">> THEN ResolveDots(acc, Tail(parts))
             ELSE IF h = <<".", ".">>
             THEN ResolveDots(IF acc = << >> THEN acc ELSE SubSeq(acc, 1, Len(acc) - 1),
                              Tail(parts))
             ELSE ResolveDots(Append(acc, h), Tail(parts))

\* The file-system object a path string names: an anchor (the drive and
\* whether the path is rooted) followed by the resolved segments.  Two path
\* strings name the same file exactly when their Canon is equal.
Canon(os, p) ==
    LET d == DriveLen(os, p)
        rest == From(p, d + 1)
        rooted == rest # EmptyStr /\ IsSep(os, rest[1])
        anchor == <<(IF rooted THEN "ROOT" ELSE "CWD")>> \o Lower(SubSeq(p, 1, d))
    IN  <<anchor>> \o ResolveDots(<< >>, SplitSeps(os, rest))

----------------------------------------------------------------------------
(* PathResolver *)

project_roots ==
    << <<"var", BS, "www", BS>>,
       <<"www", BS>>,
       <<"public_html", BS>>,
       <<"local", BS>>,
       <<"htdocs", BS>>,
       <<"home", BS>> >>

\* the roots of project_roots found in the normalised path, by list index
RootsIn(normalized_path) ==
    {r \in 1..Len(project_roots) : Occurs(normalized_path, project_roots[r])}

\* re.search(r'Temp\\[^\\]+\\(.+)', s): start indexes i of a match
TempStarts(s) ==
    {i \in 1..Len(s) :
        /\ MatchAt(s, i, <<"Temp", BS>>)
        /\ \E q \in (i + 3)..(Len(s) - 1) :
              /\ s[q] = BS
              /\ \A k \in (i + 2)..(q - 1) : s[k] # BS}

\* group(1) of the leftmost match
TempGroup(s) ==
    LET i == Min(TempStarts(s))
        q == Min({k \in (i + 2)..Len(s) : s[k] = BS})
    IN  From(s, q + 1)

\* the loop over project_roots taken in another order (last entry first)
PickRootMut(hits) == Max(hits)

\* for root in self.project_roots: if root in normalized_path (first hit)
PickRoot(hits) == Min(hits)

extract_relative_path(os, fp) ==
    LET normalized_path == Replace(fp, FS, BS)
        hits == RootsIn(normalized_path)
    IN  IF hits # {}
        THEN Replace(AfterFirst(normalized_path, project_roots[PickRoot(hits)]), BS, FS)
        ELSE IF TempStarts(normalized_path) # {}
        THEN Replace(TempGroup(normalized_path), BS, FS)
        ELSE basename(os, fp)

----------------------------------------------------------------------------
(* extract_site_name *)

\* the alternatives of the first pattern, in the order the regex lists them
site_roots ==
    << <<"var", BS, "www", BS>>,
       <<"www", BS>>,
       <<"public_html", BS>>,
       <<"local", BS>>,
       <<"htdocs", BS>>,
       <<"home", BS>> >>

\* the run of atoms other than stop that starts at index j
RunFrom(s, j, stop) ==
    LET ends == {k \in j..Len(s) : s[k] = stop}
    IN  IF ends = {} THEN From(s, j) ELSE SubSeq(s, j, Min(ends) - 1)

\* pattern 1: (?:var\\www\\|www\\|...)([^\\]+) : <<start, index of the group>>
Pattern1Hits(s) ==
    {h \in (1..Len(s)) \X (1..Len(s)) :
        \E r \in 1..Len(site_roots) :
            /\ MatchAt(s, h[1], site_roots[r])
            /\ h[2] = h[1] + Len(site_roots[r])
            /\ s[h[2]] # BS}

\* pattern 2: ftp://([^/]+)
Pattern2Hits(s) ==
    {h \in (1..Len(s)) \X (1..Len(s)) :
        /\ MatchAt(s, h[1], <<"ftp", ":", FS, FS>>)
        /\ h[2] = h[1] + 4
        /\ s[h[2]] # FS}

WebFolders3 == {"www", "public_html", "httpdocs"}

\* pattern 3: \\([^\\]+)\\(?:www|public_html|httpdocs)\\
Pattern3Hits(s) ==
    {h \in (1..Len(s)) \X (1..Len(s)) :
        /\ s[h[1]] = BS
        /\ h[2] = h[1] + 1
        /\ s[h[2]] # BS
        /\ LET g == RunFrom(s, h[2], BS)
               q == h[2] + Len(g)
           IN  /\ q + 2 <= Len(s)
               /\ s[q] = BS
               /\ s[q + 1] \in WebFolders3
               /\ s[q + 2] = BS}

\* match.group(1) of the leftmost match among hits
Group1(s, hits, stop) ==
    LET i == Min({h[1] : h \in hits})
        h == CHOOSE x \in hits : x[1] = i
    IN  RunFrom(s, h[2], stop)

WebFolders4 == {<<"www">>, <<"public_html">>, <<"httpdocs">>, <<"htdocs">>}

CodeSuffixes == {<<".", "php">>, <<".", "html">>, <<".", "js">>, <<".", "css">>}

\* socket.gethostname()
Hostname == <<"devbox">>

extract_site_name(fp) ==
    LET normalized_path == Replace(fp, FS, BS)
        parts == SplitOn(normalized_path, BS)
        web == {i \in 2..Len(parts) : Lower(parts[i]) \in WebFolders4}
        dotted == {i \in 1..Len(parts) :
                     /\ "." \in {parts[i][k] : k \in 1..Len(parts[i])}
                     /\ \A sfx \in CodeSuffixes : ~EndsWith(parts[i], sfx)}
    IN  IF Pattern1Hits(normalized_path) # {}
        THEN Group1(normalized_path, Pattern1Hits(normalized_path), BS)
        ELSE IF Pattern2Hits(normalized_path) # {}
        THEN Group1(normalized_path, Pattern2Hits(normalized_path), FS)
        ELSE IF Pattern3Hits(normalized_path) # {}
        THEN Group1(normalized_path, Pattern3Hits(normalized_path), BS)
        ELSE IF web # {} THEN parts[Min(web) - 1]
        ELSE IF dotted # {} THEN parts[Min(dotted)]
        ELSE Hostname

\* the characters re.sub(r'[^\w\-_.]', '_', ...) replaces
UnsafeKeyAtoms == {"/", "\\", ":", " ", "%"}

RECURSIVE SanitizeMut(_)
\* a sanitiser that percent-encodes instead (urllib.parse.quote style)
SanitizeMut(s) ==
    IF s = EmptyStr THEN s
    ELSE (IF s[1] \in UnsafeKeyAtoms THEN <<"%", "20">> ELSE <<s[1]>>)
            \o SanitizeMut(Tail(s))

\* server_key = re.sub(r'[^\w\-_.]', '_', site_name)
Sanitize(s) == [i \in 1..Len(s) |-> IF s[i] \in UnsafeKeyAtoms THEN "_" ELSE s[i]]

----------------------------------------------------------------------------
(* The file system.  A state of it is a record [files, dirs, ok]: ok turns *)
(* FALSE when an operation raises, and every later operation of the same   *)
(* try block is then skipped.                                              *)

Absent == 0 - 1

\* the prefixes c[1..k] of a canonical path, the anchor alone left out
Prefixes(c) == {SubSeq(c, 1, k) : k \in 2..Len(c)}

IsFile(st, c) == c \in DOMAIN st.files

IsDir(st, c) == Len(c) = 1 \/ c \in st.dirs

\* os.path.exists
Exists(os, st, p) ==
    p # EmptyStr /\ (IsFile(st, Canon(os, p)) \/ IsDir(st, Canon(os, p)))

Put(f, c, v) == [x \in DOMAIN f \cup {c} |-> IF x = c THEN v ELSE f[x]]

Del(f, c) == [x \in DOMAIN f \ {c} |-> f[x]]

Failed(st) == [st EXCEPT !.ok = FALSE]

\* os.makedirs(p, exist_ok=True)
MkDirs(os, st, p) ==
    IF ~st.ok THEN st
    ELSE IF p = EmptyStr THEN Failed(st)
    ELSE LET c == Canon(os, p)
             blocked == {k \in 2..Len(c) : IsFile(st, SubSeq(c, 1, k))}
             upto == IF blocked = {} THEN Len(c) ELSE Min(blocked) - 1
             made == {SubSeq(c, 1, k) : k \in 2..upto}
         IN  [files |-> st.files, dirs |-> st.dirs \cup made, ok |-> blocked = {}]

\* if not os.path.exists(p): os.makedirs(p, exist_ok=True)
MkDirsIfMissing(os, st, p) ==
    IF st.ok /\ ~Exists(os, st, p) THEN MkDirs(os, st, p) ELSE st

\* shutil.copy2(src, dst)
CopyFile(os, st, src, dst) ==
    IF ~st.ok THEN st
    ELSE LET cs == Canon(os, src)
             target == IF IsDir(st, Canon(os, dst)) THEN Join(os, dst, basename(os, src))
                       ELSE dst
             ct == Canon(os, target)
         IN  IF \/ ~IsFile(st, cs)
                \/ cs = ct
                \/ IsDir(st, ct)
                \/ ~IsDir(st, SubSeq(ct, 1, Len(ct) - 1))
             THEN Failed(st)
             ELSE [st EXCEPT !.files = Put(st.files, ct, st.files[cs])]

\* if os.path.exists(p): os.remove(p)
RemoveIfExists(os, st, p) ==
    IF ~st.ok \/ ~Exists(os, st, p) THEN st
    ELSE IF IsFile(st, Canon(os, p))
         THEN [st EXCEPT !.files = Del(st.files, Canon(os, p))]
         ELSE Failed(st)

----------------------------------------------------------------------------
(* BackupStore: FtpBackupManager *)

\* the backup root of the manager, by platform
RootOf(os) ==
    IF os = "nt" THEN <<"C", ":", BS, "BackUp">> ELSE <<FS, "backup">>

\* the source files the editor has open
SrcA == <<FS, "var", FS, "www", FS, "acme", FS, "index", ".", "php">>
SrcB == <<FS, "srv", FS, "notes", ".", "txt">>
SrcC == <<FS, "srv", FS, "Thumbs", ".", "db">>
SrcD == <<FS, "srv", FS, "gone", ".", "txt">>

\* a directory: shutil.copy2 raises on it
SrcE == <<FS, "srv">>

\* a file named through a ".." segment after the web root: /var/x.php
SrcU == <<FS, "var", FS, "www", FS, ".", ".", FS, "x", ".", "php">>

SrcPaths == {SrcA, SrcB, SrcC, SrcD, SrcE, SrcU}

\* the source files that exist on disk at the start
SrcOnDisk == {SrcA, SrcB, SrcC}

Modes == {None, <<"before">>, <<"after">>}

Tasks == {None, <<"42">>}

ServerNames == {None}

\* the calls made: every mode and task for the first file, every mode for the
\* second, one call for the excluded file, the missing file and the directory
CallInputs ==
    ({SrcA} \X ServerNames \X Modes \X Tasks)
        \cup ({SrcB} \X ServerNames \X Modes \X {None})
        \cup ({SrcC, SrcD, SrcE} \X {None} \X {None} \X {None})

\* what the source files hold at the start
InitialContent(fp) == IF fp = SrcA THEN 1 ELSE 10

Platforms == {"nt", "posix"}

\* the resolver's results for the source files, computed once
SiteOf == [fp \in SrcPaths |-> extract_site_name(fp)]

RelOf == [os \in Platforms, fp \in SrcPaths |-> extract_relative_path(os, fp)]

\* datetime.now().strftime("%B %Y"): the clock's month rolls over after the
\* first tick
MonthYear(t) ==
    IF t = 0 THEN <<"November", " ", "2026">> ELSE <<"December", " ", "2026">>

\* datetime.now().strftime("%Y-%m-%d %H:%M:%S"): the clock read to the second
Stamp(t) == <<"T", t>>

NoStamp == <<"T", Absent>>

excluded_files ==
    { <<"default", ".", "sublime-commands">>,
      <<".", "sublime-commands">>,
      <<".", "DS_Store">>,
      <<"Thumbs", ".", "db">> }

\* no file is excluded
IsExcludedMut(os, fp) == FALSE

\* the test of lines 151-152
IsExcluded(os, fp) ==
    \/ basename(os, fp) \in excluded_files
    \/ \E ext \in excluded_files : Occurs(fp, ext)

\* bool(x) of an optional string
Truthy(x) == x # None /\ x # EmptyStr

\* the methods of class FtpBackupManager (its body ends where the
\* module-level def create_backup_zip begins; _save_config is defined inside
\* that function, after its return statements)
ManagerMethods ==
    {"__init__", "_load_config", "_extract_relative_path", "extract_site_name",
     "backup_file"}

\* json.dump of the manifest: one line per key
JsonDump(map) ==
    {<<k, map[k].first_backup_time, map[k].last_backup_time, map[k].site>> :
        k \in DOMAIN map}

\* json.load
JsonLoad(text) ==
    [k \in {t[1] : t \in text} |->
        LET t == CHOOSE x \in text : x[1] = k
        IN  [first_backup_time |-> t[2], last_backup_time |-> t[3], site |-> t[4]]]

config_path(os, root) == Join(os, root, <<"backup_config", ".", "json">>)

\* the manifest with a new entry for rel (lines 206-210, 229-235)
NewEntry(map, rel, t, site) ==
    Put(map, rel, [first_backup_time |-> Stamp(t), last_backup_time |-> NoStamp,
                   site |-> site])

\* the entry is dropped instead of updated
TouchMut(map, rel, t, site) ==
    IF rel \in DOMAIN map THEN Del(map, rel) ELSE map

\* the update stamps the first time as well
TouchFirstMut(map, rel, t, site) ==
    IF rel \in DOMAIN map
    THEN [map EXCEPT ![rel].first_backup_time = Stamp(t),
                     ![rel].last_backup_time = Stamp(t), ![rel].site = site]
    ELSE map

\* lines 242-244
Touch(map, rel, t, site) ==
    IF rel \in DOMAIN map
    THEN [map EXCEPT ![rel].last_backup_time = Stamp(t), ![rel].site = site]
    ELSE map

\* mode 'before' writes a new entry over an existing one
BeforeModeEntryMut(map, rel, t, site) == NewEntry(map, rel, t, site)

\* lines 206-210: the entry is created only when the manifest has none
BeforeModeEntry(map, rel, t, site) ==
    IF rel \notin DOMAIN map THEN NewEntry(map, rel, t, site) ELSE map

\* the task folder named by the bare task number
TaskFolderNameMut(task_number) == task_number

\* line 181: f"task_{task_number}"
TaskFolderName(task_number) == <<"task_">> \o task_number

\* default mode copies the first version on every call
NeedsFirstCopyMut(map, rel) == TRUE

\* line 229: if relative_path not in self.server_backup_map
NeedsFirstCopy(map, rel) == rel \notin DOMAIN map

\* lines 180-183: the task folder, or the month folder when no task is given
TaskFolder(os, month_year_folder, task_number) ==
    IF Truthy(task_number)
    THEN Join(os, month_year_folder, TaskFolderName(task_number))
    ELSE month_year_folder

\* lines 164-191 and 198-199: the paths backup_file computes
FolderPlan(os, root, t, key, task_number, rel) ==
    LET server_folder == Join(os, root, key)
        month_year_folder == Join(os, server_folder, MonthYear(t))
        task_folder == TaskFolder(os, month_year_folder, task_number)
        before_path == Join(os, task_folder, <<"before">>)
        after_path == Join(os, task_folder, <<"after">>)
    IN  [server_folder |-> server_folder,
         month_year_folder |-> month_year_folder,
         task_folder |-> task_folder,
         before_path |-> before_path,
         after_path |-> after_path,
         first_backup_path |-> Join(os, before_path, rel),
         after_backup_path |-> Join(os, after_path, rel)]

\* lines 166-194: the folders are made in this order
MakeFolders(os, st, p) ==
    MkDirs(os,
      MkDirs(os,
        MkDirsIfMissing(os,
          MkDirsIfMissing(os,
            MkDirsIfMissing(os, st, p.server_folder),
            p.month_year_folder),
          p.task_folder),
        p.before_path),
      p.after_path)

\* lines 200-210: mode == 'before'
ModeBefore(os, st, map, fp, p, rel, t, site) ==
    LET b2 == CopyFile(os, MkDirs(os, st, dirname(os, p.first_backup_path)),
                       fp, p.first_backup_path)
    IN  [st |-> b2,
         map |-> IF b2.ok THEN BeforeModeEntry(map, rel, t, site) ELSE map]

\* mode 'after' that refreshes the before slot as well
ModeAfterMut(os, st, map, fp, p) ==
    [st |-> CopyFile(os,
              CopyFile(os,
                RemoveIfExists(os,
                  MkDirs(os, MkDirs(os, st, dirname(os, p.first_backup_path)),
                         dirname(os, p.after_backup_path)),
                  p.after_backup_path),
                fp, p.after_backup_path),
              fp, p.first_backup_path),
     map |-> map]

\* lines 212-220: mode == 'after'
ModeAfter(os, st, map, fp, p) ==
    [st |-> CopyFile(os,
              RemoveIfExists(os,
                MkDirs(os, st, dirname(os, p.after_backup_path)),
                p.after_backup_path),
              fp, p.after_backup_path),
     map |-> map]

\* lines 222-240: no mode given
ModeDefault(os, st, map, fp, p, rel, t, site) ==
    LET d1 == MkDirs(os, MkDirs(os, st, dirname(os, p.first_backup_path)),
                     dirname(os, p.after_backup_path))
        d2 == IF NeedsFirstCopy(map, rel)
              THEN CopyFile(os, d1, fp, p.first_backup_path)
              ELSE d1
    IN  [st |-> CopyFile(os, RemoveIfExists(os, d2, p.after_backup_path),
                         fp, p.after_backup_path),
         map |-> IF d2.ok /\ NeedsFirstCopy(map, rel)
                 THEN NewEntry(map, rel, t, site)
                 ELSE map]

\* an except clause for OSError only
ExceptCatchesMut == {"OSError"}

\* line 250: except Exception catches every exception the try block raises
\* (a failed file-system call raises OSError, a call of a missing method
\* AttributeError)
ExceptCatches == {"OSError", "AttributeError"}

\* what the caller gets when an exception leaves backup_file
Escaped(raised) == << <<"raise">>, <<raised>> >>

\* lines 242-253: the entry is touched, the manifest saved, the folders
\* returned; an exception on the way gives (None, None)
Finish(os, root, r, p, rel, t, site, key) ==
    LET raised == IF ~r.st.ok THEN "OSError"
                  ELSE IF "_save_config" \notin ManagerMethods THEN "AttributeError"
                  ELSE "none"
        saved == raised = "none"
        m2 == IF r.st.ok THEN Touch(r.map, rel, t, site) ELSE r.map
    IN  [files |-> IF saved
                   THEN Put(r.st.files, Canon(os, config_path(os, root)), JsonDump(m2))
                   ELSE r.st.files,
         dirs |-> r.st.dirs,
         map |-> m2,
         before_path |-> p.before_path,
         after_path |-> p.after_path,
         copied |-> r.st.ok,
         saved |-> saved,
         site |-> site,
         key |-> key,
         rel |-> rel,
         raised |-> raised,
         ret |-> IF saved THEN <<p.before_path, p.after_path>>
                 ELSE IF raised \in ExceptCatches THEN <<None, None>>
                 ELSE Escaped(raised)]

\* lines 196-240 on the folders made: the copies of the mode
ModeEffect(os, st, map, fp, p, rel, t, site, mode) ==
    IF mode = <<"before">> THEN ModeBefore(os, st, map, fp, p, rel, t, site)
    ELSE IF mode = <<"after">> THEN ModeAfter(os, st, map, fp, p)
    ELSE ModeDefault(os, st, map, fp, p, rel, t, site)

\* lines 164-253 on the paths computed
BackupOn(os, root, t, F, D, map, fp, mode, task_number, site, rel, p) ==
    CHOOSE eff \in
        { Finish(os, root, r, p, rel, t, site, Sanitize(site)) :
            r \in { ModeEffect(os, st, map, fp, p, rel, t, site, mode) :
                      st \in { MakeFolders(os, [files |-> F, dirs |-> D, ok |-> TRUE],
                                           p) } } } : TRUE

\* backup_file from line 159 on, for a file that exists and is not excluded,
\* given the site name and the relative path of the file
BackupWith(os, root, t, F, D, map, fp, mode, task_number, site, rel) ==
    CHOOSE eff \in
        { BackupOn(os, root, t, F, D, map, fp, mode, task_number, site, rel, p) :
            p \in { FolderPlan(os, root, t, Sanitize(site), task_number, rel) } } : TRUE

\* backup_file from line 159 on, for a file that exists and is not excluded:
\* the file system, manifest and return value it leaves
\* a resolver that looks at the manifest
BackupEffectMut(os, root, t, F, D, map, fp, server_name, mode, task_number) ==
    BackupWith(os, root, t, F, D, map, fp, mode, task_number,
               IF Truthy(server_name) THEN server_name ELSE SiteOf[fp],
               IF map = << >> THEN RelOf[os, fp] ELSE basename(os, fp))

BackupEffect(os, root, t, F, D, map, fp, server_name, mode, task_number) ==
    BackupWith(os, root, t, F, D, map, fp, mode, task_number,
               IF Truthy(server_name) THEN server_name ELSE SiteOf[fp],
               RelOf[os, fp])

\* self.server_backup_map = {} and _load_config (lines 45, 63-73)
LoadConfig(os, root, F) ==
    IF Canon(os, config_path(os, root)) \in DOMAIN F
    THEN JsonLoad(F[Canon(os, config_path(os, root))])
    ELSE << >>

\* the directories __init__ makes: backup_root and backup_root/logs
InitDirs(os, root, st) ==
    MkDirs(os, MkDirs(os, st, Join(os, root, <<"logs">>)), root)

NoCall ==
    [op |-> "none", n |-> 0, file |-> None, mode |-> None, task |-> None, time |-> 0,
     excluded |-> FALSE, existed |-> FALSE, content |-> Absent, hadEntry |-> FALSE,
     copied |-> FALSE, rel |-> None, site |-> None, raised |-> "none",
     allDefault |-> TRUE]

InitStore ==
    /\ now = 0
    /\ backup_root = RootOf(os_name)
    /\ LET src == [files |-> [c \in {Canon(os_name, f) : f \in SrcOnDisk} |->
                                InitialContent(CHOOSE f \in SrcOnDisk :
                                                  Canon(os_name, f) = c)],
                   dirs |-> UNION {Prefixes(SubSeq(Canon(os_name, f), 1,
                                                   Len(Canon(os_name, f)) - 1)) :
                                      f \in SrcPaths},
                   ok |-> TRUE]
           st == InitDirs(os_name, backup_root, src)
       IN  /\ files = st.files
           /\ dirs = st.dirs
           /\ server_backup_map = LoadConfig(os_name, backup_root, st.files)
    /\ result = <<None, None>>
    /\ call = NoCall
    /\ hist = << >>

\* the history of default-mode calls for rel after one more call
HistAfter(h, rel, mode, content, eff) ==
    IF mode # None
    THEN Put(h, rel, [n |-> 0, first |-> Absent, firstDir |-> None,
                      last |-> Absent, lastDir |-> None, pure |-> FALSE])
    ELSE IF rel \notin DOMAIN h
    THEN Put(h, rel, [n |-> 1, first |-> content, firstDir |-> eff.before_path,
                      last |-> content, lastDir |-> eff.after_path, pure |-> TRUE])
    ELSE [h EXCEPT ![rel].n = IF @ < 2 THEN @ + 1 ELSE @,
                   ![rel].last = content,
                   ![rel].lastDir = eff.after_path]

\* what a call meets before it acts
Met(os, F, D, n, t, fp, mode, task_number) ==
    [op |-> "backup", n |-> n + 1, file |-> fp, mode |-> mode, task |-> task_number,
     time |-> t,
     excluded |-> IsExcluded(os, fp),
     existed |-> Exists(os, [files |-> F, dirs |-> D, ok |-> TRUE], fp),
     content |-> IF Canon(os, fp) \in DOMAIN F THEN F[Canon(os, fp)] ELSE Absent,
     hadEntry |-> FALSE, copied |-> FALSE, rel |-> None, site |-> None,
     raised |-> "none", allDefault |-> TRUE]

\* FtpBackupManager.backup_file(file_path, server_name, mode, task_number)
BackupFile(fp, server_name, mode, task_number) ==
    /\ call.n < MaxCalls
    /\ \E met \in {Met(os_name, files, dirs, call.n, now, fp, mode, task_number)} :
          IF met.excluded \/ ~met.existed
          THEN /\ result' = <<None, None>>
               /\ call' = [met EXCEPT !.allDefault = call.allDefault]
               /\ UNCHANGED <<files, dirs, server_backup_map, hist>>
          ELSE \E eff \in {BackupEffect(os_name, backup_root, now, files, dirs,
                                        server_backup_map, fp, server_name, mode,
                                        task_number)} :
                  /\ files' = eff.files
                  /\ dirs' = eff.dirs
                  /\ server_backup_map' = eff.map
                  /\ result' = eff.ret
                  /\ call' = [met EXCEPT
                                 !.hadEntry = eff.rel \in DOMAIN server_backup_map,
                                 !.copied = eff.copied,
                                 !.rel = eff.rel,
                                 !.site = eff.site,
                                 !.raised = eff.raised,
                                 !.allDefault = call.allDefault /\ mode = None]
                  /\ hist' = IF eff.copied
                             THEN HistAfter(hist, eff.rel, mode, met.content, eff)
                             ELSE hist
    /\ UNCHANGED <<now, backup_root>>

\* FtpBackupManager(backup_root): a new manager on the same root
NewManager ==
    /\ call.n > 0
    /\ server_backup_map # << >>
    /\ \E st \in {InitDirs(os_name, backup_root,
                            [files |-> files, dirs |-> dirs, ok |-> TRUE])} :
          dirs' = st.dirs
    /\ server_backup_map' = LoadConfig(os_name, backup_root, files)
    /\ hist' = << >>
    /\ call' = [call EXCEPT !.op = "new"]
    /\ UNCHANGED <<now, backup_root, files, result>>

\* the file is edited and written outside backup_file (at most once between
\* two calls)
EditFile(fp) ==
    /\ 0 < call.n /\ call.n < MaxCalls
    /\ Canon(os_name, fp) \in DOMAIN files
    /\ files[Canon(os_name, fp)] <= call.n
    /\ files' = [files EXCEPT ![Canon(os_name, fp)] = @ + 1]
    /\ UNCHANGED <<now, backup_root, dirs, server_backup_map, result, call, hist>>

\* time passes (the clock is read by backup_file only: one tick between two
\* calls is all a call can tell)
Tick ==
    /\ call.n < MaxCalls
    /\ now < call.n
    /\ now' = now + 1
    /\ UNCHANGED <<backup_root, files, dirs, server_backup_map, result, call, hist>>

\* no archive has been made
NoZip ==
    [n |-> 0, site |-> None, month |-> None, kind |-> "none", name |-> None,
     folder_path |-> None, folder_type |-> None, time |-> 0, site_name |-> None,
     zip_name |-> None, zip_dir |-> None, zip_path |-> None, entries |-> {}]

\* no input panel is open
NoPanel == [kind |-> "none", file |-> None]

\* no editor command has run its handler
NoCmd ==
    [n |-> 0, op |-> "none", file |-> None, text |-> None, task |-> None,
     prompted |-> FALSE, pre |-> Absent, written |-> Absent, done |-> FALSE,
     excluded |-> FALSE]

EditIdle ==
    /\ panel = NoPanel
    /\ cmd = NoCmd

\* line 15: CURRENT_TASK_NUMBER = None
ZipIdle ==
    /\ CURRENT_TASK_NUMBER = None
    /\ zip = NoZip
    /\ EditIdle

PathIdle ==
    /\ pc = "store"
    /\ file_path = None
    /\ relative_path = None
    /\ site_name = None
    /\ server_key = None

Init ==
    /\ os_name \in Platforms
    /\ PathIdle
    /\ InitStore
    /\ ZipIdle

Next ==
    \/ \E in \in CallInputs :
          BackupFile(in[1], in[2], in[3], in[4]) /\ UNCHANGED <<pathVars, zipVars, editVars>>
    \/ NewManager /\ UNCHANGED <<pathVars, zipVars, editVars>>
    \/ EditFile(SrcA) /\ UNCHANGED <<pathVars, zipVars, editVars>>
    \/ Tick /\ UNCHANGED <<pathVars, zipVars, editVars>>

Spec == Init /\ [][Next]_vars

----------------------------------------------------------------------------
(* Specification of the path resolver: every path of the bounded set is    *)
(* resolved once.                                                          *)

PathAtoms == {"/", "\\", "www", "home", "Temp", "x", " "}

PathInputs == UNION {[1..n -> PathAtoms] : n \in 0..MaxPathLen}

\* a path that ntpath reads as a UNC share (\\\\host\\share): left out of the inputs
IsUNC(os, p) == os = "nt" /\ Len(p) >= 2 /\ IsSep(os, p[1]) /\ IsSep(os, p[2])

\* the pseudo-URLs handed to the resolver: ftp://<host>/<rest>
UrlInputs ==
    {<<"ftp", ":", FS, FS>> \o h \o <<FS>> \o r :
        h \in {<<"myserver">>, <<"example", ".", "com">>, <<"cdn", ".", "js">>},
        r \in {<<"index", ".", "php">>, <<"dir", FS, "index", ".", "php">>,
               <<"www", FS, "x">>}}

InitPath ==
    /\ os_name \in Platforms
    /\ pc = "input"
    /\ file_path \in PathInputs \cup UrlInputs
    /\ ~IsUNC(os_name, file_path)
    /\ relative_path = None
    /\ site_name = None
    /\ server_key = None
    /\ now = 0
    /\ backup_root = EmptyStr
    /\ files = << >>
    /\ dirs = {}
    /\ server_backup_map = << >>
    /\ result = <<None, None>>
    /\ call = NoCall
    /\ hist = << >>
    /\ ZipIdle

Resolve ==
    /\ pc = "input"
    /\ pc' = "resolved"
    /\ relative_path' = extract_relative_path(os_name, file_path)
    /\ site_name' = extract_site_name(file_path)
    /\ server_key' = Sanitize(extract_site_name(file_path))
    /\ UNCHANGED <<os_name, file_path>>
    /\ UNCHANGED <<storeVars, zipVars, editVars>>

NextPath == Resolve

SpecPath == InitPath /\ [][NextPath]_vars

----------------------------------------------------------------------------
(* ArchiveBuilder: FtpBackupCreateZipCommand *)

\* line 539: the backup root FtpBackupCreateZipCommand.run uses
HardRoot ==
    <<"C", ":", BS, "Users", BS, "aleksandr.kulakov", BS, "Desktop", BS, "BackUp">>

\* the parts of a path that normpath keeps
RECURSIVE NormParts(_, _, _)
NormParts(acc, parts, rooted) ==
    IF parts = << >> THEN acc
    ELSE LET h == Head(parts)
         IN  IF h = EmptyStr \/ h = <<".">> THEN NormParts(acc, Tail(parts), rooted)
             ELSE IF h # <<".", ".">> THEN NormParts(Append(acc, h), Tail(parts), rooted)
             ELSE IF acc # << >> /\ Last(acc) # <<".", ".">>
             THEN NormParts(SubSeq(acc, 1, Len(acc) - 1), Tail(parts), rooted)
             ELSE IF rooted THEN NormParts(acc, Tail(parts), rooted)
             ELSE NormParts(Append(acc, h), Tail(parts), rooted)

\* sep.join(parts)
RECURSIVE JoinParts(_, _)
JoinParts(parts, sep) ==
    IF parts = << >> THEN EmptyStr
    ELSE IF Len(parts) = 1 THEN parts[1]
    ELSE parts[1] \o <<sep>> \o JoinParts(Tail(parts), sep)

\* os.path.normpath (UNC shares apart)
normpath(os, p) ==
    LET d == DriveLen(os, p)
        rest == From(p, d + 1)
        rooted == rest # EmptyStr /\ IsSep(os, rest[1])
        lead == IF ~rooted THEN EmptyStr
                ELSE IF /\ os = "posix"
                        /\ Len(rest) >= 2 /\ rest[2] = FS
                        /\ ~(Len(rest) >= 3 /\ rest[3] = FS)
                THEN <<FS, FS>>
                ELSE <<Sep(os)>>
        out == SubSeq(p, 1, d) \o lead
                 \o JoinParts(NormParts(<< >>, SplitSeps(os, rest), rooted), Sep(os))
    IN  IF out = EmptyStr THEN <<".">> ELSE out

\* lines 683-685: folder_path.split(os.sep) without the empty parts
FolderParts(os, folder_path) ==
    SelectSeq(SplitOn(folder_path, Sep(os)), LAMBDA part : part # EmptyStr)

\* part.startswith('task_')
IsTaskPart(part) == part # EmptyStr /\ part[1] = "task_"

\* line 690: the test a part passes to become the site name
\* (re.match(r'[\w\-_.]+', part) looks at the first character)
IsNamePart(part) ==
    /\ part[1] \notin UnsafeKeyAtoms
    /\ ~IsTaskPart(part)
    /\ part \notin {<<"before">>, <<"after">>}

\* lines 688-692: the first part that passes, "backup" if none does
ZipSiteName(folder_parts) ==
    LET S == {i \in 1..Len(folder_parts) : IsNamePart(folder_parts[i])}
    IN  IF S = {} THEN <<"backup">> ELSE folder_parts[Min(S)]

\* the characters of line 695
ZipUnsafeAtoms == {"\\", "/", ":", "*", "?", "\"", "<", ">", "|"}

\* line 695: re.sub(r'[\\/:*?"<>|]', '_', site_name)
SafeSiteName(s) == [i \in 1..Len(s) |-> IF s[i] \in ZipUnsafeAtoms THEN "_" ELSE s[i]]

\* line 696: datetime.now().strftime("%d.%m.%Y.%H%M")
DateStr(t) == IF t = 0 THEN <<"01.11.2026.0900">> ELSE <<"01.12.2026.0900">>

\* lines 698-701
ZipName(safe_site_name, folder_type, date_str) ==
    IF Truthy(folder_type)
    THEN <<"backup_">> \o safe_site_name \o <<"_">> \o folder_type \o <<"_">>
            \o date_str \o <<".", "zip">>
    ELSE <<"backup_">> \o safe_site_name \o <<"_">> \o date_str \o <<".", "zip">>

\* os.path.join(a, *parts)
RECURSIVE JoinAll(_, _, _)
JoinAll(os, a, parts) ==
    IF parts = << >> THEN a
    ELSE JoinAll(os, Join(os, a, Head(parts)), Tail(parts))

\* lines 706-709: the first part that starts with task_
PickTaskPart(T) == Min(T)

\* lines 703-725: the directory the archive is put in
ZipDir(os, folder_path, folder_parts) ==
    LET T == {i \in 1..Len(folder_parts) : IsTaskPart(folder_parts[i])}
    IN  IF T # {}
        THEN IF ":" \in {folder_path[i] : i \in 1..Len(folder_path)}
             THEN JoinAll(os, SplitOn(folder_path, ":")[1] \o <<":">>,
                          << <<Sep(os)>> >> \o SubSeq(folder_parts, 1, PickTaskPart(T)))
             ELSE JoinAll(os, <<Sep(os)>>, SubSeq(folder_parts, 1, PickTaskPart(T)))
        ELSE IF basename(os, folder_path) \in {<<"before">>, <<"after">>}
        THEN dirname(os, dirname(os, folder_path))
        ELSE dirname(os, folder_path)

\* what a zip file holds on disk (its entries are kept in zip.entries)
ZipBytes == 0 - 2

\* os.listdir of the directory c: the names in it
ListDir(st, c) ==
    {x[Len(c) + 1] : x \in {y \in DOMAIN st.files \cup st.dirs :
                              Len(y) = Len(c) + 1 /\ SubSeq(y, 1, Len(c)) = c}}

\* the names d of os.listdir(c) with os.path.isdir(os.path.join(c, d))
SubDirs(st, c) ==
    {x[Len(c) + 1] : x \in {y \in st.dirs :
                              Len(y) = Len(c) + 1 /\ SubSeq(y, 1, Len(c)) = c}}

\* lines 734-739: os.walk(folder_path), each file under its path relative to
\* the folder
ZipEntries(st, cf) ==
    {<<SubSeq(x, Len(cf) + 1, Len(x)), st.files[x]>> :
        x \in {y \in DOMAIN st.files : Len(y) > Len(cf) /\ SubSeq(y, 1, Len(cf)) = cf}}

\* lines 727-749: the directory is made, the zip file opened for writing,
\* the folder walked
ZipWrite(os, st, folder_path, zip_site_name, zip_name, zip_dir, zip_path) ==
    LET s1 == MkDirs(os, st, dirname(os, zip_path))
        s2 == IF ~s1.ok \/ IsDir(s1, Canon(os, zip_path))
              THEN Failed(s1)
              ELSE [s1 EXCEPT !.files = Put(s1.files, Canon(os, zip_path), ZipBytes)]
    IN  [st |-> s2,
         ret |-> IF s2.ok THEN zip_path ELSE None,
         reset |-> s2.ok,
         site_name |-> zip_site_name,
         zip_name |-> zip_name,
         zip_dir |-> zip_dir,
         entries |-> IF s2.ok THEN ZipEntries(s2, Canon(os, folder_path)) ELSE {}]

\* lines 680-728 on the normalised path
ZipNamed(os, st, t, folder_path, folder_parts, folder_type) ==
    ZipWrite(os, st, folder_path,
             ZipSiteName(folder_parts),
             ZipName(SafeSiteName(ZipSiteName(folder_parts)), folder_type, DateStr(t)),
             ZipDir(os, folder_path, folder_parts),
             Join(os, ZipDir(os, folder_path, folder_parts),
                  ZipName(SafeSiteName(ZipSiteName(folder_parts)), folder_type,
                          DateStr(t))))

\* FtpBackupCreateZipCommand.create_zip_archive(backup_manager, folder_path,
\* folder_type)
create_zip_archive(os, st, t, folder_path, folder_type) ==
    IF ~Exists(os, st, folder_path)
    THEN [st |-> st, ret |-> None, reset |-> FALSE, site_name |-> None,
          zip_name |-> None, zip_dir |-> None, entries |-> {}]
    ELSE ZipNamed(os, st, t, normpath(os, folder_path),
                  FolderParts(os, normpath(os, folder_path)), folder_type)

\* lines 586-613: the options on_month_selected offers, as <<kind, name>>
ZipOptions(os, st, month, month_path) ==
    LET items == SubDirs(st, Canon(os, month_path))
        tasks == {d \in items : IsTaskPart(d)}
        root_folders == items \cap {<<"before">>, <<"after">>}
    IN  (IF root_folders # {}
         THEN {<<"month", month>>} \cup {<<f[1], month>> : f \in root_folders}
         ELSE {})
        \cup {<<"task", task>> : task \in tasks}
        \cup UNION {{<<f[1], task>> :
                        f \in {<<"before">>, <<"after">>}
                              \cap ListDir(st, Canon(os, Join(os, month_path, task)))} :
                    task \in tasks}

\* lines 638-659: the folder the selected option stands for
SelectedFolder(os, month, month_path, opt) ==
    IF opt[1] = "month" THEN month_path
    ELSE IF opt[1] = "task" THEN Join(os, month_path, opt[2])
    ELSE IF opt[2] = month THEN Join(os, month_path, <<opt[1]>>)
    ELSE Join(os, Join(os, month_path, opt[2]), <<opt[1]>>)

\* line 643 (None for the options archived without a folder type)
SelectedType(opt) == IF opt[1] \in {"before", "after"} THEN <<opt[1]>> ELSE None

\* lines 744-746: the global is reset when the archive has been written
TaskAfterZipMut(reset, current) == None

\* lines 744-751
TaskAfterZip(reset, current) == IF reset THEN None ELSE current

\* run, on_site_selected, on_month_selected, on_folder_selected: a site, a
\* month and an option are picked, a manager is made on the root and the
\* folder archived; io_ok: the disk takes the archive (makedirs and ZipFile
\* do not raise)
FolderSelected(io_ok) ==
    /\ zip.n < MaxZips
    /\ \E fs \in {[files |-> files, dirs |-> dirs, ok |-> TRUE]} :
       \E site \in SubDirs(fs, Canon(os_name, backup_root)) \ {<<"logs">>} :
       \E month \in SubDirs(fs, Canon(os_name, Join(os_name, backup_root, site))) :
       \E month_path \in {JoinAll(os_name, backup_root, <<site, month>>)} :
       \E opt \in ZipOptions(os_name, fs, month, month_path) :
       \E st \in {InitDirs(os_name, backup_root, fs)} :
       \E r \in {create_zip_archive(os_name, [st EXCEPT !.ok = io_ok], now,
                                    SelectedFolder(os_name, month, month_path, opt),
                                    SelectedType(opt))} :
          /\ files' = r.st.files
          /\ dirs' = r.st.dirs
          /\ CURRENT_TASK_NUMBER' = TaskAfterZip(r.reset, CURRENT_TASK_NUMBER)
          /\ zip' = [n |-> zip.n + 1, site |-> site, month |-> month,
                     kind |-> opt[1], name |-> opt[2],
                     folder_path |-> SelectedFolder(os_name, month, month_path, opt),
                     folder_type |-> SelectedType(opt), time |-> now,
                     site_name |-> r.site_name, zip_name |-> r.zip_name,
                     zip_dir |-> r.zip_dir, zip_path |-> r.ret,
                     entries |-> r.entries]
    /\ UNCHANGED <<pathVars, editVars, now, backup_root, server_backup_map, result,
                   call, hist>>

\* the archive command on a disk that takes the archive
OnFolderSelected == FolderSelected(TRUE)

\* the backup roots of the archive specification, by platform
ZipRoots(os) ==
    IF os = "nt" THEN {RootOf(os), HardRoot}
    ELSE {RootOf(os), <<FS, "srv", FS, "backup">>}

SrcT == <<FS, "var", FS, "www", FS, "task_", "site", FS, "index", ".", "php">>

\* the files backed up before an archive is made
ZipSources == {SrcA, SrcT}

\* the tree one backup_file call leaves on a new root, for every mode and task
InitZip ==
    /\ os_name \in Platforms
    /\ PathIdle
    /\ now = 0
    /\ backup_root \in ZipRoots(os_name)
    /\ \E fp \in ZipSources, mode \in Modes, task \in Tasks :
       \E src \in {[files |-> [c \in {Canon(os_name, fp)} |-> 1],
                    dirs |-> Prefixes(SubSeq(Canon(os_name, fp), 1,
                                             Len(Canon(os_name, fp)) - 1)),
                    ok |-> TRUE]} :
       \E st \in {InitDirs(os_name, backup_root, src)} :
       \E eff \in {BackupWith(os_name, backup_root, now, st.files, st.dirs, << >>,
                              fp, mode, task, extract_site_name(fp),
                              extract_relative_path(os_name, fp))} :
          /\ files = eff.files
          /\ dirs = eff.dirs
          /\ server_backup_map = eff.map
          /\ result = eff.ret
          /\ CURRENT_TASK_NUMBER = task
    /\ call = NoCall
    /\ hist = << >>
    /\ zip = NoZip
    /\ EditIdle

NextZip == OnFolderSelected

SpecZip == InitZip /\ [][NextZip]_vars

----------------------------------------------------------------------------
(* backup_file on source paths with ".." segments *)

ContainSources == {SrcA, SrcU}

ContainInputs == ContainSources \X ServerNames \X Modes \X Tasks

InitContain ==
    /\ os_name \in Platforms
    /\ PathIdle
    /\ ZipIdle
    /\ now = 0
    /\ backup_root = RootOf(os_name)
    /\ \E src \in {[files |-> [c \in {Canon(os_name, f) : f \in ContainSources} |-> 1],
                    dirs |-> UNION {Prefixes(SubSeq(Canon(os_name, f), 1,
                                                    Len(Canon(os_name, f)) - 1)) :
                                       f \in SrcPaths},
                    ok |-> TRUE]} :
       \E st \in {InitDirs(os_name, backup_root, src)} :
          /\ files = st.files
          /\ dirs = st.dirs
          /\ server_backup_map = LoadConfig(os_name, backup_root, st.files)
    /\ result = <<None, None>>
    /\ call = NoCall
    /\ hist = << >>

NextContain ==
    \E in \in ContainInputs :
        BackupFile(in[1], in[2], in[3], in[4]) /\ UNCHANGED <<pathVars, zipVars, editVars>>

SpecContain == InitContain /\ [][NextContain]_vars

----------------------------------------------------------------------------
(* The editor commands: guarded save, forced before/after backup, archive *)

\* str.strip() (the white space of the model is the atom " ")
Strip(s) ==
    LET keep == {i \in 1..Len(s) : s[i] # " "}
    IN  IF keep = {} THEN EmptyStr ELSE SubSeq(s, Min(keep), Max(keep))

\* lines 395, 471, 517: task_number.strip() if task_number else None
StripOrNone(task_number) ==
    IF Truthy(task_number) THEN Strip(task_number) ELSE None

\* FtpBackupManager.backup_file as a function of the disk and the manifest
backup_file(os, root, t, F, D, map, fp, server_name, mode, task_number) ==
    IF IsExcluded(os, fp) \/ ~Exists(os, [files |-> F, dirs |-> D, ok |-> TRUE], fp)
    THEN [files |-> F, dirs |-> D, map |-> map, ret |-> <<None, None>>]
    ELSE CHOOSE r \in
            { [files |-> eff.files, dirs |-> eff.dirs, map |-> eff.map,
               ret |-> eff.ret] :
                eff \in { BackupEffect(os, root, t, F, D, map, fp, server_name, mode,
                                       task_number) } } : TRUE

\* lines 406-408: open(file_path, 'w') and write the view's text w; b is the
\* disk the before backup left
WriteView(os, b, fp, w) ==
    IF \/ Canon(os, fp) \in b.dirs
       \/ ~IsDir(b, Canon(os, dirname(os, fp)))
    THEN [files |-> b.files, dirs |-> b.dirs, map |-> b.map, ret |-> b.ret,
          done |-> FALSE]
    ELSE [files |-> Put(b.files, Canon(os, fp), w), dirs |-> b.dirs, map |-> b.map,
          ret |-> b.ret, done |-> TRUE]

\* line 409 on the disk the write left (nothing more when it raised)
AfterWrite(os, root, t, x, fp, task_number) ==
    IF ~x.done THEN x
    ELSE CHOOSE r \in
            { [files |-> a.files, dirs |-> a.dirs, map |-> a.map, ret |-> a.ret,
               done |-> TRUE] :
                a \in { backup_file(os, root, t, x.files, x.dirs, x.map, fp, None,
                                    <<"after">>, task_number) } } : TRUE

\* the view is written first, the two backups follow
save_with_backupMut(os, root, t, st, map, fp, task_number, w) ==
    CHOOSE r \in
        { AfterWrite(os, root, t,
                     [files |-> b.files, dirs |-> b.dirs, map |-> b.map,
                      ret |-> b.ret, done |-> TRUE], fp, task_number) :
            b \in { backup_file(os, root, t, x.files, x.dirs, x.map, fp, None,
                                <<"before">>, task_number) :
                      x \in { WriteView(os, [files |-> st.files, dirs |-> st.dirs,
                                             map |-> map, ret |-> <<None, None>>],
                                        fp, w) } } } : TRUE

\* lines 405-409: backup before, write, backup after
save_with_backup(os, root, t, st, map, fp, task_number, w) ==
    CHOOSE r \in
        { AfterWrite(os, root, t, x, fp, task_number) :
            x \in { WriteView(os, b, fp, w) :
                      b \in { backup_file(os, root, t, st.files, st.dirs, map, fp, None,
                                          <<"before">>, task_number) } } } : TRUE

\* lines 481 and 527: one backup_file call in the command's mode
forced_backup(os, root, t, st, map, fp, task_number, mode) ==
    CHOOSE r \in
        { [files |-> b.files, dirs |-> b.dirs, map |-> b.map, ret |-> b.ret,
           done |-> TRUE] :
            b \in { backup_file(os, root, t, st.files, st.dirs, map, fp, None, mode,
                                task_number) } } : TRUE

\* the body of save_with_backup / create_before_backup / create_after_backup
\* after the manager is made (lines 401-409, 477-481, 523-527)
CommandEffect(kind, os, root, t, st, fp, task_number, w) ==
    IF kind = "save"
    THEN save_with_backup(os, root, t, st, LoadConfig(os, root, st.files), fp,
                          task_number, w)
    ELSE forced_backup(os, root, t, st, LoadConfig(os, root, st.files), fp,
                       task_number, <<kind>>)

\* the files open in the editor
ViewFiles == {SrcA, SrcC, SrcD}

\* what the user types into the input panel
PanelTexts == {EmptyStr, <<" ">>, <<" ", "42">>}

\* the text of the view when it is saved: the file's text, edited
ViewTexts(F, c) == IF c \in DOMAIN F THEN {F[c] + 1} ELSE {1}

\* save_with_backup / create_before_backup / create_after_backup
\* (file_path, task_number), called by run or by the input panel
Handler(kind, fp, task_text, prompted) ==
    /\ cmd.n < MaxCmds
    /\ \E task_number \in {StripOrNone(task_text)} :
       \E w \in IF kind = "save" THEN ViewTexts(files, Canon(os_name, fp)) ELSE {Absent} :
       \E st \in {InitDirs(os_name, HardRoot,
                            [files |-> files, dirs |-> dirs, ok |-> TRUE])} :
       \E r \in {CommandEffect(kind, os_name, HardRoot, now, st, fp, task_number, w)} :
          /\ CURRENT_TASK_NUMBER' = task_number
          /\ files' = r.files
          /\ dirs' = r.dirs
          /\ server_backup_map' = r.map
          /\ result' = r.ret
          /\ cmd' = [n |-> cmd.n + 1, op |-> kind, file |-> fp, text |-> task_text,
                     task |-> task_number, prompted |-> prompted,
                     pre |-> IF Canon(os_name, fp) \in DOMAIN files
                             THEN files[Canon(os_name, fp)] ELSE Absent,
                     written |-> w, done |-> r.done,
                     excluded |-> IsExcluded(os_name, fp)]
    /\ UNCHANGED <<pathVars, now, backup_root, call, hist, zip>>

\* FtpBackupSaveCommand.run, FtpBackupCreateBeforeCommand.run,
\* FtpBackupCreateAfterCommand.run on a view of the file fp
Run(kind, fp) ==
    IF Truthy(CURRENT_TASK_NUMBER)
    THEN Handler(kind, fp, CURRENT_TASK_NUMBER, FALSE) /\ UNCHANGED panel
    ELSE /\ panel' = [kind |-> kind, file |-> fp]
         /\ UNCHANGED <<pathVars, storeVars, zipVars, cmd>>

\* the input panel's on_done: the lambda of lines 384, 461, 507
PanelDone(task_text) ==
    /\ panel # NoPanel
    /\ Handler(panel.kind, panel.file, task_text, TRUE)
    /\ panel' = NoPanel

\* the input panel is closed without an answer (on_cancel is None)
PanelCancel ==
    /\ panel # NoPanel
    /\ panel' = NoPanel
    /\ UNCHANGED <<pathVars, storeVars, zipVars, cmd>>

\* FtpBackupCreateZipCommand, on a disk that may refuse the archive
ZipCommand == \E io_ok \in BOOLEAN : FolderSelected(io_ok)

InitSave ==
    /\ os_name \in Platforms
    /\ PathIdle
    /\ ZipIdle
    /\ now = 0
    /\ backup_root = HardRoot
    /\ files = [c \in {Canon(os_name, f) : f \in ViewFiles \cap SrcOnDisk} |->
                  InitialContent(CHOOSE f \in ViewFiles : Canon(os_name, f) = c)]
    /\ dirs = UNION {Prefixes(SubSeq(Canon(os_name, f), 1, Len(Canon(os_name, f)) - 1)) :
                        f \in ViewFiles}
    /\ server_backup_map = << >>
    /\ result = <<None, None>>
    /\ call = NoCall
    /\ hist = << >>

\* the guarded save of every file
NextSave ==
    \/ \E fp \in ViewFiles : Run("save", fp)
    \/ \E task_text \in PanelTexts : PanelDone(task_text)
    \/ PanelCancel

SpecSave == InitSave /\ [][NextSave]_vars

\* the save and the forced before backup of one file (create_after_backup
\* treats the task number as create_before_backup does, line for line), and
\* the archive command
NextTask ==
    \/ \E kind \in {"save", "before"} : Run(kind, SrcA)
    \/ \E task_text \in PanelTexts : PanelDone(task_text)
    \/ PanelCancel
    \/ ZipCommand

SpecTask == InitSave /\ [][NextTask]_vars

----------------------------------------------------------------------------
(* Properties of the backup store *)

\* what the file named by the path string p holds, Absent if there is none
ContentAt(p) ==
    IF Canon(os_name, p) \in DOMAIN files THEN files[Canon(os_name, p)] ELSE Absent

\* the last operation was a backup_file call that made its copies
Copied == call.op = "backup" /\ call.copied

\* the files of F that lie in a before folder
BeforeSlots(F) ==
    [c \in {x \in DOMAIN F : \E k \in 1..Len(x) : x[k] = <<"before">>} |-> F[c]]

\* a/b/c... joined with the platform's separator
RECURSIVE PathOf(_, _)
PathOf(os, segs) ==
    IF Len(segs) = 1 THEN segs[1]
    ELSE segs[1] \o <<Sep(os)>> \o PathOf(os, Tail(segs))

C1_Slots ==
    \A rel \in DOMAIN hist :
        (hist[rel].pure /\ hist[rel].n >= 2)
        => /\ ContentAt(PathOf(os_name, <<hist[rel].firstDir, rel>>)) = hist[rel].first
           /\ ContentAt(PathOf(os_name, <<hist[rel].lastDir, rel>>)) = hist[rel].last

C1_BeforeOnce ==
    (/\ call'.n = call.n + 1
     /\ call'.mode = None
     /\ BeforeSlots(files') # BeforeSlots(files))
    => call'.rel \notin DOMAIN server_backup_map

\* C1: after two or more default-mode calls for one relative path (and no
\* forced call for it) the before slot holds the content of the first call
\* and the after slot the content of the latest call; a default-mode call
\* changes a before slot only when the manifest has no entry for the path.
C1_DefaultMode == [](C1_Slots) /\ [][C1_BeforeOnce]_vars

\* two default-mode calls with an edit between them
C1_Witness ==
    \E rel \in DOMAIN hist :
        /\ hist[rel].pure
        /\ hist[rel].n >= 2
        /\ hist[rel].first # hist[rel].last
        /\ ContentAt(PathOf(os_name, <<hist[rel].firstDir, rel>>)) = hist[rel].first
        /\ ContentAt(PathOf(os_name, <<hist[rel].lastDir, rel>>)) = hist[rel].last

\* C2: a call for an existing, not excluded file whose directory and copy
\* steps all succeeded returns the (before_dir, after_dir) pair, never
\* (None, None).
C2_ReturnsDirs ==
    (Copied /\ call.existed /\ ~call.excluded) => result # <<None, None>>

\* the manifest a manager created now would load
Persisted == LoadConfig(os_name, backup_root, files)

\* C3: after a call that wrote a copy the entry of the relative path carries
\* the time and site of the call, and the persisted manifest equals the
\* in-memory manifest.
C3_Persisted ==
    Copied =>
        /\ call.rel \in DOMAIN server_backup_map
            => /\ server_backup_map[call.rel].last_backup_time = Stamp(call.time)
               /\ server_backup_map[call.rel].site = call.site
        /\ Persisted = server_backup_map

\* the folder of the call's bucket: root/key/month[/task_<id>]
BucketOf(c) ==
    PathOf(os_name,
           <<backup_root, Sanitize(c.site), MonthYear(c.time)>>
           \o (IF Truthy(c.task) THEN << <<"task_">> \o c.task >> ELSE << >>))

C4_Step ==
    (/\ call'.op = "backup"
     /\ call'.n = call.n + 1
     /\ call'.mode = <<"before">>
     /\ call'.copied)
    => LET rel == call'.rel
           slot == Canon(os_name, PathOf(os_name, <<BucketOf(call'), <<"before">>, rel>>))
       IN  /\ slot \in DOMAIN files'
           /\ files'[slot] = call'.content
           /\ rel \in DOMAIN server_backup_map'
           /\ IF rel \in DOMAIN server_backup_map
              THEN server_backup_map'[rel].first_backup_time
                       = server_backup_map[rel].first_backup_time
              ELSE server_backup_map'[rel].first_backup_time = Stamp(now)

\* C4: a call in mode 'before' leaves the file's current content in the
\* before slot whether or not the manifest has an entry, and sets
\* first_backup_time to now only when it creates the entry.
C4_BeforeMode == [][C4_Step]_vars

\* a forced before call for a path that had an entry, after an edit and a tick
C4_Witness ==
    /\ Copied
    /\ call.mode = <<"before">>
    /\ call.hadEntry
    /\ call.content # InitialContent(call.file)
    /\ ContentAt(PathOf(os_name, <<BucketOf(call), <<"before">>, call.rel>>)) = call.content
    /\ server_backup_map[call.rel].first_backup_time # Stamp(call.time)

\* the layout of the first source file: /var/www/<S>/<F>
LayoutS == <<"acme">>
LayoutF == <<"index", ".", "php">>
LayoutT == <<"42">>

\* R/<S>/<Month Year>/task_<T>/<slot>/<rest>, with the platform's separator
LayoutPath(slot, rest) ==
    PathOf(os_name, <<backup_root, LayoutS, MonthYear(call.time),
                      <<"task_">> \o LayoutT, slot, rest>>)

LayoutCall ==
    Copied /\ call.file = <<FS, "var", FS, "www", FS>> \o LayoutS \o <<FS>> \o LayoutF
           /\ call.task = LayoutT

\* C5 as stated: the copies land at .../before/<F> and .../after/<F>, and the
\* manifest gains the key <F> with site <S>.
C5_LayoutAsStated ==
    LayoutCall =>
        /\ call.mode = <<"before">>
            => ContentAt(LayoutPath(<<"before">>, LayoutF)) = call.content
        /\ call.mode # <<"before">>
            => ContentAt(LayoutPath(<<"after">>, LayoutF)) = call.content
        /\ call.mode # <<"after">>
            => /\ LayoutF \in DOMAIN server_backup_map
               /\ server_backup_map[LayoutF].site = LayoutS

\* C5, amended: the relative path is everything after var/www/, the site
\* folder included: the copies land at .../before/<S>/<F> and
\* .../after/<S>/<F>, and the manifest gains the key <S>/<F> with site <S>.
C5_Layout ==
    LayoutCall =>
        LET rel == LayoutS \o <<FS>> \o LayoutF
        IN  /\ call.mode = <<"before">>
                => ContentAt(LayoutPath(<<"before">>, rel)) = call.content
            /\ call.mode # <<"before">>
                => ContentAt(LayoutPath(<<"after">>, rel)) = call.content
            /\ call.mode # <<"after">>
                => /\ rel \in DOMAIN server_backup_map
                   /\ server_backup_map[rel].site = LayoutS

\* the guarded save's two calls have been made for the file with task 42
C5_Witness ==
    /\ LayoutCall
    /\ call.mode = <<"after">>
    /\ LayoutS \o <<FS>> \o LayoutF \in DOMAIN server_backup_map
    /\ ContentAt(LayoutPath(<<"before">>, LayoutS \o <<FS>> \o LayoutF)) # Absent
    /\ ContentAt(LayoutPath(<<"after">>, LayoutS \o <<FS>> \o LayoutF)) = call.content

----------------------------------------------------------------------------
(* Properties of the path resolver *)

\* the priority list as the specification states it
ClaimMarkers ==
    << <<"var", FS, "www", FS>>,
       <<"www", FS>>,
       <<"public_html", FS>>,
       <<"local", FS>>,
       <<"htdocs", FS>>,
       <<"home", FS>> >>

IsAnySep(a) == a \in {FS, BS}

\* equal strings up to the separator style
SameModSep(a, b) ==
    /\ Len(a) = Len(b)
    /\ \A k \in 1..Len(a) : a[k] = b[k] \/ (IsAnySep(a[k]) /\ IsAnySep(b[k]))

MarkerAt(p, i, m) ==
    /\ i + Len(m) - 1 <= Len(p)
    /\ SameModSep(SubSeq(p, i, i + Len(m) - 1), m)

HasMarker(p, r) == \E i \in 1..Len(p) : MarkerAt(p, i, ClaimMarkers[r])

FirstMarkerAt(p, r) == Min({i \in 1..Len(p) : MarkerAt(p, i, ClaimMarkers[r])})

NoMarker(p) == \A r \in 1..Len(ClaimMarkers) : ~HasMarker(p, r)

\* the text after the last separator of either style
LastSegment(p) == From(p, Max({0} \cup {i \in 1..Len(p) : IsAnySep(p[i])}) + 1)

\* C8: for a path that contains a project-root marker, the relative path is
\* the text after the first occurrence of the marker that comes first in the
\* priority list, with every separator a forward slash.
C8_MarkerSuffix ==
    pc = "resolved" =>
        \A r \in 1..Len(ClaimMarkers) :
            (HasMarker(file_path, r) /\ \A h \in 1..(r - 1) : ~HasMarker(file_path, h))
            => LET i == FirstMarkerAt(file_path, r)
                   suffix == From(file_path, i + Len(ClaimMarkers[r]))
               IN  /\ SameModSep(relative_path, suffix)
                   /\ \A k \in 1..Len(relative_path) : relative_path[k] # BS

\* a path with two markers, the lower-priority one (home/) first in the path
C8_Witness ==
    /\ pc = "resolved"
    /\ HasMarker(file_path, 2)
    /\ HasMarker(file_path, 6)
    /\ FirstMarkerAt(file_path, 6) < FirstMarkerAt(file_path, 2)
    /\ relative_path = From(file_path, FirstMarkerAt(file_path, 2) + 2)
    /\ relative_path # EmptyStr

\* C9: for a path with no marker and no temp-folder pattern, the relative
\* path is the last path segment, whichever separator style the path uses.
C9_BaseName ==
    (/\ pc = "resolved"
     /\ NoMarker(file_path)
     /\ TempStarts(Replace(file_path, FS, BS)) = {})
    => relative_path = LastSegment(file_path)

\* C10: sanitising an already sanitised site key returns it unchanged.
C10_SanitizeIdempotent ==
    pc = "resolved" => Sanitize(server_key) = server_key

\* a site name that the sanitisation changed
C10_Witness ==
    /\ pc = "resolved"
    /\ server_key # site_name
    /\ \E k \in 1..Len(site_name) : site_name[k] \in UnsafeKeyAtoms

----------------------------------------------------------------------------
(* Properties of the archive builder *)

\* the last operation archived the before folder of a task folder
\* R/<S>/<Month Year>/task_<T>/before, with folder type 'before'
ZippedTaskBefore ==
    /\ zip.n > 0
    /\ zip.kind = "before"
    /\ IsTaskPart(zip.name)

\* R/<S>/<Month Year>/task_<T> of the last archive
ZippedTaskFolder == JoinAll(os_name, backup_root, <<zip.site, zip.month, zip.name>>)

\* C6: archiving R/<S>/<Month Year>/task_<T>/before with folder type 'before'
\* produces a zip named backup_<S>_before_<DD.MM.YYYY.HHMM>.zip, <S> being the
\* site folder's name, placed in R/<S>/<Month Year>/task_<T>/
C6_ArchiveNaming ==
    ZippedTaskBefore
    => /\ zip.zip_path # None
       /\ basename(os_name, zip.zip_path)
            = <<"backup_">> \o zip.site \o <<"_", "before", "_">>
                \o DateStr(zip.time) \o <<".", "zip">>
       /\ Canon(os_name, dirname(os_name, zip.zip_path))
            = Canon(os_name, ZippedTaskFolder)

\* C7: for the before folder of a task folder the zip directory computed is
\* that task folder, whatever the backup root, the site name and the task id
C7_TaskBeforeTarget ==
    ZippedTaskBefore
    => Canon(os_name, zip.zip_dir) = Canon(os_name, ZippedTaskFolder)

----------------------------------------------------------------------------
(* Properties of the backup store: rejected calls, failures, frames *)

\* the file's path matches the exclusion list, by base name or as a substring
\* (a base name of the list is a substring of the path)
MatchesExclusion(fp) == \E e \in excluded_files : Occurs(fp, e)

\* nothing exists at the path
Missing(fp) ==
    /\ Canon(os_name, fp) \notin DOMAIN files
    /\ Canon(os_name, fp) \notin dirs

C11_Step ==
    (/\ call'.op = "backup"
     /\ call'.n = call.n + 1
     /\ MatchesExclusion(call'.file) \/ Missing(call'.file))
    => /\ result' = <<None, None>>
       /\ files' = files
       /\ dirs' = dirs
       /\ server_backup_map' = server_backup_map
       /\ LoadConfig(os_name, backup_root, files') = Persisted

C12_NoEscape ==
    call.op = "backup"
    => /\ result[1] # <<"raise">>
       /\ call.raised # "none" => result = <<None, None>>

\* a copy has failed (the source is a directory) after the folders were made
C12_Witness ==
    /\ call.op = "backup"
    /\ call.raised = "OSError"
    /\ result = <<None, None>>

C16_Step ==
    (/\ call'.op = "backup"
     /\ call'.n = call.n + 1
     /\ call'.mode = <<"after">>
     /\ call'.copied)
    => LET slot == Canon(os_name,
                         PathOf(os_name, <<BucketOf(call'), <<"after">>, call'.rel>>))
       IN  /\ slot \in DOMAIN files'
           /\ files'[slot] = call'.content
           /\ BeforeSlots(files') = BeforeSlots(files)
           /\ DOMAIN server_backup_map' = DOMAIN server_backup_map

\* C16: a call in mode 'after' leaves a fresh copy of the current content in
\* the after slot (an older copy is replaced), and changes no before-slot
\* file and not the set of manifest keys.
C16_AfterMode == [][C16_Step]_vars

\* a forced after call has copied the edited file while the before slot keeps
\* the first content
C16_Witness ==
    /\ call.op = "backup"
    /\ call.n = 2
    /\ call.mode = <<"after">>
    /\ call.copied
    /\ call.content = 2
    /\ \E c \in DOMAIN BeforeSlots(files) : files[c] = 1

C17_Step ==
    (call'.op = "backup" /\ call'.n = call.n + 1)
    => /\ DOMAIN server_backup_map \subseteq DOMAIN server_backup_map'
       /\ (call'.copied /\ call'.mode \in {None, <<"before">>})
          => call'.rel \in DOMAIN server_backup_map'

SlotIndex(c) ==
    LET R == Canon(os_name, backup_root)
        k == Len(R) + 3
    IN  IF Len(c) <= k \/ SubSeq(c, 1, Len(R)) # R THEN 0
        ELSE IF c[k] \in {<<"before">>, <<"after">>} THEN k
        ELSE IF Len(c) > k + 1 /\ IsTaskPart(c[k])
                /\ c[k + 1] \in {<<"before">>, <<"after">>}
        THEN k + 1
        ELSE 0

\* C18: when every call so far was made in default mode, every relative path
\* with an after-slot copy in a bucket (site/month/task) has a before-slot copy
\* in the same bucket.
C18_BeforeWithAfter ==
    call.allDefault
    => \A c \in DOMAIN files :
          (SlotIndex(c) > 0 /\ c[SlotIndex(c)] = <<"after">>)
          => [c EXCEPT ![SlotIndex(c)] = <<"before">>] \in DOMAIN files

----------------------------------------------------------------------------
(* Properties of the archive builder: placement *)

\* where the zip of the last archived folder belongs: one level above a
\* before/after leaf, else the folder itself (the task folder or the month
\* folder)
StatedZipDir ==
    IF zip.kind \in {"before", "after"}
    THEN dirname(os_name, zip.folder_path)
    ELSE zip.folder_path

\* C15: for every folder of the tree that can be archived (month, task,
\* task/before, task/after, month/before, month/after) the zip is placed one
\* level above a before/after leaf, in the task folder for a task folder, in
\* the month folder otherwise.
C15_Placement ==
    (zip.n > 0 /\ zip.zip_path # None)
    => Canon(os_name, zip.zip_dir) = Canon(os_name, StatedZipDir)

(* Properties of the store: the resolvers inside backup_file *)

IsFtpUrl(p) == StartsWith(p, <<"ftp", ":", FS, FS>>) /\ FS \in {p[k] : k \in 5..Len(p)}

\* the <host> of ftp://<host>/<rest>
UrlHost(p) == RunFrom(p, 5, FS)

\* C19: for a path of the form ftp://<host>/<rest> that contains no web-root
\* marker, extract_site_name returns <host>.
C19_FtpHost ==
    (pc = "resolved" /\ IsFtpUrl(file_path) /\ NoMarker(file_path))
        => site_name = UrlHost(file_path)

----------------------------------------------------------------------------
(* Properties of the editor commands *)

\* the copy of the last command's file in the slot (before or after) of the
\* bucket of its site, the month and the task number in use:
\* R/<site>/<Month Year>/[task_<T>/]<slot>/<relative path>
SaveSlot(slot) ==
    PathOf(os_name,
           <<backup_root, Sanitize(extract_site_name(cmd.file)), MonthYear(now)>>
             \o (IF Truthy(cmd.task) THEN << <<"task_">> \o cmd.task >> ELSE << >>)
             \o <<slot, extract_relative_path(os_name, cmd.file)>>)

SaveDone == cmd.op = "save" /\ cmd.done

HandlerRan == cmd'.n = cmd.n + 1

\* an archive was attempted in this step
ZipRan == zip'.n = zip.n + 1

\* C14: a task number is in use: every command runs its handler at once, with
\* that number and without an input panel, and the number stays; no number is
\* in use: a command only opens the input panel, and its handler runs on the
\* answer, which becomes the number in use when it is not empty; an archive
\* that is written unsets the number, one that fails leaves it as it was;
\* nothing else changes the number.
C14_Step ==
    /\ (HandlerRan /\ Truthy(CURRENT_TASK_NUMBER))
          => /\ ~cmd'.prompted
             /\ cmd'.task = CURRENT_TASK_NUMBER
             /\ CURRENT_TASK_NUMBER' = CURRENT_TASK_NUMBER
             /\ panel' = panel
    /\ (HandlerRan /\ ~Truthy(CURRENT_TASK_NUMBER))
          => /\ cmd'.prompted
             /\ panel = [kind |-> cmd'.op, file |-> cmd'.file]
             /\ CURRENT_TASK_NUMBER' = cmd'.task
             /\ Strip(cmd'.text) # EmptyStr
                   => CURRENT_TASK_NUMBER' = Strip(cmd'.text)
    /\ (panel' # panel /\ panel' # NoPanel)
          => /\ ~Truthy(CURRENT_TASK_NUMBER)
             /\ UNCHANGED <<CURRENT_TASK_NUMBER, cmd, files, dirs>>
    /\ (ZipRan /\ zip'.zip_path # None) => CURRENT_TASK_NUMBER' = None
    /\ (ZipRan /\ zip'.zip_path = None)
          => CURRENT_TASK_NUMBER' = CURRENT_TASK_NUMBER
    /\ CURRENT_TASK_NUMBER' # CURRENT_TASK_NUMBER
          => \/ HandlerRan /\ cmd'.prompted
             \/ ZipRan /\ zip'.zip_path # None

C14_TaskNumber == [][C14_Step]_vars

\* a number was typed, the next command ran with it unprompted, an archive was
\* written, and the command after that opened the input panel
C14_Witness ==
    /\ cmd.n = 2 /\ ~cmd.prompted /\ Truthy(cmd.task)
    /\ zip.n = 1 /\ zip.zip_path # None
    /\ CURRENT_TASK_NUMBER = None
    /\ panel # NoPanel

\* C22: a guarded save overwrites the file only after the before backup has
\* written the before-slot copy: a file that was on disk and has been
\* overwritten has its pre-edit content in the before slot.
C22_BackupBeforeWrite ==
    (SaveDone /\ cmd.pre # Absent /\ ContentAt(cmd.file) # cmd.pre)
        => ContentAt(SaveSlot(<<"before">>)) = cmd.pre

----------------------------------------------------------------------------
(* Properties of the manifest's time stamps *)

\* the clock reading a stamp was made from
StampTime(s) == s[2]

C24_Step ==
    (call'.op = "backup" /\ call'.n = call.n + 1)
    => \A rel \in DOMAIN server_backup_map :
          /\ rel \in DOMAIN server_backup_map'
          /\ server_backup_map'[rel].first_backup_time
               = server_backup_map[rel].first_backup_time

C24_Ordered ==
    \A rel \in DOMAIN server_backup_map :
        /\ server_backup_map[rel].first_backup_time # NoStamp
        /\ server_backup_map[rel].last_backup_time # NoStamp
              => StampTime(server_backup_map[rel].first_backup_time)
                   <= StampTime(server_backup_map[rel].last_backup_time)

\* C24: over the backup_file calls made on one manager no call changes the
\* first_backup_time of an entry the manifest already has, and in every entry
\* that has both stamps first_backup_time is not later than last_backup_time.
C24_FirstStampFixed == [](C24_Ordered) /\ [][C24_Step]_vars

\* the second call on a file, made after the clock has moved: the entry keeps
\* the first call's time as first_backup_time and has the later time as
\* last_backup_time
C24_Witness ==
    /\ call.op = "backup" /\ call.n = 2 /\ call.copied /\ call.hadEntry
    /\ call.time = 1
    /\ server_backup_map[call.rel].first_backup_time = Stamp(0)
    /\ server_backup_map[call.rel].last_backup_time = Stamp(1)

----------------------------------------------------------------------------
(* Properties of the archive builder: the archive and the archived folder *)

\* the canonical path c lies in the folder cf or below it
Inside(c, cf) == Len(c) > Len(cf) /\ SubSeq(c, 1, Len(cf)) = cf

\* C23: create_zip_archive never writes the zip inside the folder it archives
\* or below it, and no archive is among the entries of an archive.
C23_ZipOutside ==
    (zip.n > 0 /\ zip.zip_path # None)
        => /\ ~Inside(Canon(os_name, zip.zip_path), Canon(os_name, zip.folder_path))
           /\ \A e \in zip.entries : e[2] # ZipBytes

----------------------------------------------------------------------------
(* Properties of the backup store: containment *)

\* root/<site_key>/<Month Year>/[task_<id>/]<slot> of the call made in the step
BucketSlot(slot) ==
    PathOf(os_name,
           <<backup_root, Sanitize(call'.site), MonthYear(call'.time)>>
             \o (IF Truthy(call'.task) THEN << <<"task_">> \o call'.task >> ELSE << >>)
             \o <<slot>>)

C21_Step ==
    (call'.op = "backup" /\ call'.n = call.n + 1 /\ call'.copied)
    => /\ \A c \in DOMAIN files' :
             (c \notin DOMAIN files \/ files'[c] # files[c])
                => /\ Inside(c, Canon(os_name, backup_root))
                   /\ \/ Inside(c, Canon(os_name, BucketSlot(<<"before">>)))
                      \/ Inside(c, Canon(os_name, BucketSlot(<<"after">>)))
       /\ \A c \in dirs' \ dirs : Inside(c, Canon(os_name, backup_root))

\* C21: every file that a backup_file call creates or overwrites lies in the
\* before or the after directory of root/<site_key>/<Month Year>/[task_<id>/],
\* and every file and directory it creates lies inside the backup root, for
\* every source path (those with ".." segments included).
C21_Containment == [][C21_Step]_vars

====
